---- MODULE Spec2Model ----
(***************************************************************************)
(* holopy/fitting/mcmc.py: staged subset tempering (subset_tempering),     *)
(* the ensemble driver (Emcee), and the sampling results (SamplingResult,  *)
(* EmceeResult) with their summary (_values), thinning (data_frame) and    *)
(* persistence (save / load / load_sampling).                              *)
(*                                                                         *)
(* Numbers.  Pixel counts and parameter values are integers.  A fraction   *)
(* is the pair num/den.  Log-probabilities are counted in quarters of a    *)
(* nat, so the 0.5 of _values is Half = 2 quarters.  np.logspace is        *)
(* evaluated exactly, on the inputs for which every element is an integer. *)
(***************************************************************************)
EXTENDS Integers, Sequences, FiniteSets, TLC

\* ---------------------------------------------------------------- bounds
\* largest min_pixels / max_pixels of a call
MaxPixels == 4
\* largest number of preliminary stages of a call
MaxStages == 2
\* largest value of the first parameter on the value grid
MaxVal == 2
\* log-probabilities of a free table lie in 0..MaxLn (quarters of a nat)
MaxLn == 3

\* the 0.5 of "d.lnprob.max()-.5", in quarters of a nat
Half == 2

\* the model's parameters, in model order
Names == <<"alpha", "beta">>
Pars == 1..Len(Names)
\* the value grid of each parameter; a position is one value per parameter
Grid(j) == IF j = 1 THEN 0..MaxVal ELSE 0..1
Positions == {q \in [Pars -> 0..MaxVal] : \A j \in Pars : q[j] \in Grid(j)}
\* the walkers of an ensemble and the steps of a preliminary and of the final
\* pass: nwalkers, stage_len and final_len of the calls that are modelled
Walkers == {1, 2}
StageSteps == {1, 2}
FinalSteps == {1}
nwalkers == Cardinality(Walkers)
stage_len == Cardinality(StageSteps)
final_len == Cardinality(FinalSteps)

\* None, where the other values are strings
None == "None"
\* p0 = None, where the other values are ensembles
NoP0 == <<>>
\* the thin argument of data_frame: 'acor', None or an integer
ThinAcor == [kind |-> "acor", n |-> 0]
ThinNone == [kind |-> "None", n |-> 0]
ThinInt(n) == [kind |-> "int", n |-> n]
\* the outcome of a call: a value returned, or an exception raised
Ok(v) == [err |-> None, val |-> v]
Raise(e) == [err |-> e, val |-> <<>>]

\* ------------------------------------------------------------ arithmetic
Abs(x) == IF x < 0 THEN 0 - x ELSE x
Max2(x, y) == IF x >= y THEN x ELSE y
Min2(x, y) == IF x <= y THEN x ELSE y

RECURSIVE Pow(_, _)
Pow(b, e) == IF e = 0 THEN 1 ELSE b * Pow(b, e - 1)

\* the integer d-th root of x, when x has one
HasRoot(x, d) == \E v \in 0..x : Pow(v, d) = x
Root(x, d) == CHOOSE v \in 0..x : Pow(v, d) = x

\* np.logspace(log10(lo), log10(hi), num): 10 ** linspace(...).  Element i
\* (0-based) is lo^(1 - i/(num-1)) * hi^(i/(num-1)); linspace with num = 1
\* holds its start alone.
LogspaceAt(lo, hi, num, i) ==
    IF num = 1 THEN lo
    ELSE Root(Pow(lo, num - 1 - i) * Pow(hi, i), num - 1)
Logspace(lo, hi, num) == [i \in 1..num |-> LogspaceAt(lo, hi, num, i - 1)]
\* the inputs on which every element of the logspace is an integer
Exact(lo, hi, num) ==
    num = 1 \/ \A i \in 0..(num - 1) : HasRoot(Pow(lo, num - 1 - i) * Pow(hi, i), num - 1)

\* fractions num/den with den > 0
Frac(n, d) == [num |-> n, den |-> d]
FracLess(a, b) == a.num * b.den < b.num * a.den
FracEq(a, b) == a.num * b.den = b.num * a.den
FracLeqOne(a) == a.num <= a.den
FracPositive(a) == a.num > 0

\* subset_tempering, line 99: fractions = np.logspace(...)/n_pixels
Fractions(minp, maxp, st, n) ==
    [i \in 1..(st + 1) |-> Frac(Logspace(minp, maxp, st + 1)[i], n)]
\* fractions[:-1] written fractions[:]: the final fraction is a stage too
StageFractionsAll(fr) == fr
\* line 101: fractions[:-1]
StageFractions(fr) == SubSeq(fr, 1, Len(fr) - 1)
\* line 102: fractions[-1]
FinalFraction(fr) == fr[Len(fr)]

\* ---------------------------------------------------------------- priors
\* a prior of the model: a Gaussian of centre mu and width sd.  A draw on
\* the value grid lies within sd of mu; a width of 0 draws mu alone.
Prior(n, m, s) == [name |-> n, mu |-> m, sd |-> s]
Draws(p, j) == {v \in Grid(j) : Abs(v - p.mu) <= p.sd}
\* np.vstack([p.sample(size=nwalkers) for p in pars]).T: one position per
\* walker, each coordinate a draw of that parameter's prior
Ensembles(pars) ==
    {e \in [Walkers -> Positions] : \A w \in Walkers : \A j \in Pars : e[w][j] \in Draws(pars[j], j)}
\* Emcee.make_guess
make_guess(model) == Ensembles(model)

\* the priors the model is built with
OriginalModel == <<Prior("alpha", 1, 1), Prior("beta", 0, 1)>>

\* prior.updated(prior, v, extra_uncertainty): a prior of the same family
\* centred on the summarized value, as wide as the larger deviation (or the
\* floor); a zero width is a PriorRefinementFailure
UpdatedWidth(v, extra) == Max2(Max2(v.plus, v.minus), extra)
RefinementFails(v, extra) == UpdatedWidth(v, extra) = 0
updated(p, v, extra) == Prior(p.name, v.value, UpdatedWidth(v, extra))

\* model.lnposterior(position, data): the likelihood peaks at Peak and the
\* priors pull towards their centres
Peak == [j \in Pars |-> IF j = 1 THEN MaxVal ELSE 1]
LnLike(q) == 0 - 2 * (Abs(q[1] - Peak[1]) + Abs(q[2] - Peak[2]))
LnPrior(model, q) == 0 - (Abs(q[1] - model[1].mu) + Abs(q[2] - model[2].mu))
lnposterior(model, q) == LnLike(q) + LnPrior(model, q)

\* ------------------------------------------------------- sampling results
\* EnsembleSampler after run_mcmc(p0, n): chain[w][t] and lnprobability[w][t]
\* for the n steps after p0, and the autocorrelation length of each parameter
Sampler(c, l, a) == [chain |-> c, lnprobability |-> l, acor |-> a]
\* EmceeResult.n_steps
n_steps(sampler) == IF Walkers = {} THEN 0 ELSE Len(sampler.chain[CHOOSE w \in Walkers : TRUE])

\* sampler.acor is a float per parameter, counted here in halves; int() of
\* such a number drops the half
Halves(n) == 2 * n
int(h) == h \div 2
MaxOf(S) == CHOOSE x \in S : \A y \in S : y <= x
\* a stride that takes the shortest autocorrelation length
StrideOfMin(sampler, thin) ==
    IF thin.kind = "acor" THEN int(0 - MaxOf({0 - sampler.acor[j] : j \in Pars}))
    ELSE IF thin.kind = "None" THEN 1
    ELSE thin.n
\* data_frame, lines 292-295: the stride of the slice
Stride(sampler, thin) ==
    IF thin.kind = "acor" THEN int(MaxOf({sampler.acor[j] : j \in Pars}))
    ELSE IF thin.kind = "None" THEN 1
    ELSE thin.n
\* the number of steps the slice burn_in::thin keeps of n
Kept(n, burn_in, thin) == IF burn_in >= n THEN 0 ELSE (n - burn_in + thin - 1) \div thin
\* the k-th (1-based) step the slice keeps, as a 1-based step
KeptStep(burn_in, thin, k) == burn_in + (k - 1) * thin + 1
\* EmceeResult.data_frame: one row per walker and kept step, walker by
\* walker (reshape(-1, npar)), the log-probability of the same walker and
\* step beside it when include_lnprob
data_frame(sampler, burn_in, thin, include_lnprob) ==
    LET st == Stride(sampler, thin)
        m == Kept(n_steps(sampler), burn_in, st)
        W == Cardinality(Walkers)
    IN [r \in 1..(W * m) |->
           LET w == ((r - 1) \div m) + 1
               t == KeptStep(burn_in, st, ((r - 1) % m) + 1)
           IN [par |-> sampler.chain[w][t],
               lnprob |-> IF include_lnprob THEN sampler.lnprobability[w][t] ELSE 0,
               has_lnprob |-> include_lnprob]]

\* UncertainValue.__init__
UncertainValue(value, plus, minus) ==
    [value |-> value, plus |-> plus, minus |-> minus, n_sigma |-> 1]

IndexError == "IndexError"
\* d.sort_values('lnprob', ascending=False): the rows in some order of
\* non-increasing lnprob; the order of rows of equal lnprob is the sort's
RECURSIVE RowOrders(_)
RowOrders(n) ==
    IF n = 0 THEN {<<>>}
    ELSE {[a \in 1..n |-> IF a < k THEN f[a] ELSE IF a = k THEN n ELSE f[a - 1]] :
             f \in RowOrders(n - 1), k \in 1..n}
Orders(d) ==
    {f \in RowOrders(Len(d)) :
        \A a \in 1..(Len(d) - 1) : d[f[a]].lnprob >= d[f[a + 1]].lnprob}
Sorted(d, f) == [a \in 1..Len(d) |-> d[f[a]]]
\* d.lnprob.max()
LnMax(d) == MaxOf({d[a].lnprob : a \in 1..Len(d)})

\* _values, lines 200-202: "while d.lnprob.iloc[i] > d.lnprob.max()-.5 and
\* i < d.shape[0]: i+=1", i counted from 0; iloc[i] is read before i is
\* compared with the number of rows.  The result is the i the loop ends
\* with, or Len(d) when iloc[Len(d)] is read, which raises IndexError
RECURSIVE ThresholdScan(_, _)
ThresholdScan(d, i) ==
    IF i >= Len(d) THEN i
    ELSE IF d[i + 1].lnprob > LnMax(d) - Half THEN ThresholdScan(d, i + 1)
    ELSE i

\* np.maximum / np.minimum of two parameter rows
Elementwise(f, b, row) ==
    [j \in Pars |-> IF f = "maximum" THEN Max2(b[j], row[j]) ELSE Min2(b[j], row[j])]
\* find_bound, lines 193-198, from the state (b, i) of its loop
RECURSIVE BoundLoop(_, _, _, _, _)
BoundLoop(f, d, mp, b, i) ==
    IF (\E j \in Pars : b[j] = mp[j]) /\ i < Len(d)
    THEN BoundLoop(f, d, mp, Elementwise(f, b, d[i + 1].par), i + 1)
    ELSE b
find_bound(f, d, i) == BoundLoop(f, d, d[1].par, d[1].par, i)

\* SamplingResult._values on the sorted table d
ValuesSorted(d) ==
    IF Len(d) = 0 THEN Raise(IndexError)
    ELSE LET mp == d[1].par
             i == ThresholdScan(d, 0)
         IN IF i >= Len(d) THEN Raise(IndexError)
            ELSE LET upper == find_bound("maximum", d, i + 1)
                     lower == find_bound("minimum", d, i + 1)
                 IN Ok([j \in Pars |->
                           UncertainValue(mp[j], upper[j] - mp[j], mp[j] - lower[j])])
\* SamplingResult._values: every outcome the sort allows
_values(d) == {ValuesSorted(Sorted(d, f)) : f \in Orders(d)}
\* EmceeResult.values: d = self.data_frame(thin=None)
values(sampler) == _values(data_frame(sampler, 0, ThinNone, TRUE))

\* EmceeResult.most_probable_values: the chain positions of maximal
\* lnprobability; one vector (ndim 1) when they all agree, all of them
\* (ndim 2, with a warning) otherwise
MaxLnprob(sampler) ==
    MaxOf({sampler.lnprobability[w][t] : w \in Walkers, t \in 1..n_steps(sampler)})
most_probable_values(sampler) ==
    LET best == {x \in Walkers \X (1..n_steps(sampler)) :
                    sampler.lnprobability[x[1]][x[2]] = MaxLnprob(sampler)}
        vs == {sampler.chain[x[1]][x[2]] : x \in best}
    IN [ndim |-> IF Cardinality(vs) = 1 THEN 1 ELSE 2, rows |-> vs]

PriorRefinementFailure == "PriorRefinementFailure"
\* updated_priors that lets a zero width through
updated_priors_unchecked(model, vs) ==
    IF vs.err # None THEN vs
    ELSE Ok([j \in Pars |-> updated(model[j], vs.val[j], 0)])
\* EmceeResult.updated_priors with extra_uncertainty None (zeros), on one
\* outcome vs of values(): the refined priors, or the exception
updated_priors(model, vs) ==
    IF vs.err # None THEN vs
    ELSE IF \E j \in Pars : RefinementFails(vs.val[j], 0) THEN Raise(PriorRefinementFailure)
    ELSE Ok([j \in Pars |-> updated(model[j], vs.val[j], 0)])

\* ----------------------------------------------------------------- state
VARIABLES
    \* the arguments of subset_tempering
    model, min_pixels, max_pixels, stages, preprocess,
    \* preprocess(data).size
    n_pixels,
    \* the locals of subset_tempering
    fractions, p0, new_pars, emcee, result,
    \* where subset_tempering stands, and the stages it has completed
    pc, done_stages,
    \* the ensemble the running sampler was started from
    start,
    \* the outcome of the last values() of updated_priors
    summary,
    \* the passes started so far: what Emcee and sample were called with
    passes,
    \* what subset_tempering returned or raised
    outcome,
    \* a sampling result, the file it was saved to, and the last call on it
    obj, file, out

argVars == <<model, min_pixels, max_pixels, stages, preprocess, n_pixels>>
schedVars == <<fractions, p0, new_pars, emcee, result, pc, done_stages, start,
               summary, passes, outcome>>
resVars == <<obj, file, out>>
vars == <<argVars, schedVars, resVars>>

NoEmcee == [model |-> <<>>, data |-> <<>>, nwalkers |-> 0]
NoResult == [sampler |-> <<>>, model |-> <<>>]
NoSummary == Raise("not called")
Pending == Raise("pending")
NoObj == [cls |-> None, sampler |-> <<>>, samples |-> <<>>, model |-> <<>>]
NoFile == [samples |-> <<>>, model |-> <<>>]
NoOut == [op |-> None, err |-> None, val |-> <<>>]
NoResults == obj = NoObj /\ file = NoFile /\ out = NoOut

\* the calls that are modelled: 1 <= min_pixels <= max_pixels <= MaxPixels,
\* up to MaxStages stages, on data of one of the sizes in sizes
Calls(sizes) ==
    /\ model = OriginalModel
    /\ n_pixels \in sizes
    /\ min_pixels \in 1..Max2(MaxPixels, n_pixels)
    /\ max_pixels \in min_pixels..Max2(MaxPixels, n_pixels)
    /\ stages \in 0..MaxStages
    /\ Exact(min_pixels, max_pixels, stages + 1)
    /\ preprocess \in {None, "hook"}

SchedInit ==
    /\ fractions = <<>>
    /\ p0 = NoP0
    /\ new_pars = <<>>
    /\ emcee = NoEmcee
    /\ result = NoResult
    /\ pc = "begin"
    /\ done_stages = 0
    /\ start = NoP0
    /\ summary = NoSummary
    /\ passes = <<>>
    /\ outcome = Pending

\* the schedules that are run: from 1 pixel to all 2^MaxStages pixels of the
\* data, in every number of stages whose fractions are representable
Init ==
    /\ Calls({Pow(2, MaxStages)})
    /\ min_pixels = 1
    /\ max_pixels = n_pixels
    /\ SchedInit
    /\ NoResults

\* Emcee.__init__ on a single image: the data is the random subset of the
\* preprocessed image
Emcee(m, random_subset, hook) ==
    [model |-> m,
     data |-> [random_subset |-> random_subset, preprocessed |-> hook # None],
     nwalkers |-> nwalkers]

\* lines 91-114: the fractions and the first p0
ComputeFractions ==
    /\ pc = "begin"
    /\ fractions' = Fractions(min_pixels, max_pixels, stages, n_pixels)
    /\ p0' = NoP0
    /\ pc' = "stage"
    /\ UNCHANGED <<argVars, resVars, new_pars, emcee, result, done_stages, start, summary,
                   passes, outcome>>

\* Emcee.sample up to run_mcmc, lines 46-48: the ensemble the sampler is
\* started from is p0, or make_guess() when p0 is None
\* sample that never calls make_guess
SeedsAsGiven(e, p) == {p}
Seeds(e, p) == IF p = NoP0 THEN make_guess(e.model) ELSE {p}
Pass(e, n, p) ==
    [random_subset |-> e.data.random_subset, preprocessed |-> e.data.preprocessed,
     n_samples |-> n, seed |-> IF p = NoP0 THEN "make_guess" ELSE "p0", model |-> e.model]

\* a stage whose Emcee is built on the refined priors of the stage before
StageStartRepriored ==
    /\ pc = "stage"
    /\ done_stages < Len(StageFractions(fractions))
    /\ LET m == IF done_stages = 0 THEN model ELSE new_pars
           e == Emcee(m, StageFractions(fractions)[done_stages + 1], preprocess)
       IN /\ emcee' = e
          /\ start' \in Seeds(e, p0)
          /\ passes' = Append(passes, Pass(e, stage_len, p0))
    /\ summary' = NoSummary
    /\ pc' = "seeded"
    /\ UNCHANGED <<argVars, resVars, fractions, p0, new_pars, result, done_stages, outcome>>

\* lines 115-118: the next preliminary stage builds its Emcee and enters sample
StageStart ==
    /\ pc = "stage"
    /\ done_stages < Len(StageFractions(fractions))
    /\ LET e == Emcee(model, StageFractions(fractions)[done_stages + 1], preprocess)
       IN /\ emcee' = e
          /\ start' \in Seeds(e, p0)
          /\ passes' = Append(passes, Pass(e, stage_len, p0))
    /\ summary' = NoSummary
    /\ pc' = "seeded"
    /\ UNCHANGED <<argVars, resVars, fractions, p0, new_pars, result, done_stages, outcome>>

\* sampler.run_mcmc(p0, n_samples) and EmceeResult(sampler, self.model),
\* lines 50-52: any chain of n positions per walker, each with the
\* log-posterior of the Emcee's model at it
Chains(steps) == [Walkers -> [steps -> Positions]]
Run(e, c) ==
    [sampler |-> Sampler(c, [w \in Walkers |-> [t \in DOMAIN c[w] |-> lnposterior(e.model, c[w][t])]],
                         [j \in Pars |-> Halves(1)]),
     model |-> e.model]

\* Emcee.sample from run_mcmc on: every result a run of the steps can return
sample(e, steps) == {Run(e, c) : c \in Chains(steps)}

\* line 118, the rest of sample.  The p0 and new_pars of the iteration before
\* are not read again: lines 119 and 122 assign them before any use.
StageRun ==
    /\ pc = "seeded"
    /\ result' \in sample(emcee, StageSteps)
    /\ start' = NoP0
    /\ p0' = NoP0
    /\ new_pars' = <<>>
    /\ pc' = "sampled"
    /\ UNCHANGED <<argVars, resVars, fractions, emcee, done_stages, summary, passes, outcome>>

\* a refinement that hands the next pass the walkers where the chain ended
StageRefineFromWalkers ==
    /\ pc = "sampled"
    /\ \E vs \in values(result.sampler) :
          LET up == updated_priors(result.model, vs)
          IN /\ summary' = vs
             /\ IF up.err # None
                THEN /\ outcome' = Raise(up.err)
                     /\ pc' = "failed"
                     /\ UNCHANGED <<new_pars, p0, done_stages, result>>
                ELSE /\ new_pars' = up.val
                     /\ result' = NoResult
                     /\ p0' = [w \in Walkers |-> result.sampler.chain[w][n_steps(result.sampler)]]
                     /\ done_stages' = done_stages + 1
                     /\ pc' = "stage"
                     /\ UNCHANGED outcome
    /\ UNCHANGED <<argVars, resVars, fractions, emcee, start, passes>>

\* lines 119-124: the refined priors of the stage and the p0 of the next
\* pass; an exception of updated_priors leaves subset_tempering.  The result
\* of the stage is not read again: line 118 or 128 assigns the next one.
StageRefine ==
    /\ pc = "sampled"
    /\ \E vs \in values(result.sampler) :
          LET up == updated_priors(result.model, vs)
          IN /\ summary' = vs
             /\ IF up.err # None
                THEN /\ outcome' = Raise(up.err)
                     /\ pc' = "failed"
                     /\ UNCHANGED <<new_pars, p0, done_stages, result>>
                ELSE /\ new_pars' = up.val
                     /\ result' = NoResult
                     /\ p0' \in Ensembles(up.val)
                     /\ done_stages' = done_stages + 1
                     /\ pc' = "stage"
                     /\ UNCHANGED outcome
    /\ UNCHANGED <<argVars, resVars, fractions, emcee, start, passes>>

\* lines 126-128: the final pass builds its Emcee, without the preprocess
\* argument, and enters sample
FinalStart ==
    /\ pc = "stage"
    /\ done_stages = Len(StageFractions(fractions))
    /\ LET e == Emcee(model, FinalFraction(fractions), None)
       IN /\ emcee' = e
          /\ start' \in Seeds(e, p0)
          /\ passes' = Append(passes, Pass(e, final_len, p0))
    /\ summary' = NoSummary
    /\ pc' = "final_seeded"
    /\ UNCHANGED <<argVars, resVars, fractions, p0, new_pars, result, done_stages, outcome>>

\* line 128, the rest of sample
FinalRun ==
    /\ pc = "final_seeded"
    /\ result' \in sample(emcee, FinalSteps)
    /\ start' = NoP0
    /\ p0' = NoP0
    /\ new_pars' = <<>>
    /\ pc' = "final_sampled"
    /\ UNCHANGED <<argVars, resVars, fractions, emcee, done_stages, summary, passes, outcome>>

\* line 131: return result
Return ==
    /\ pc = "final_sampled"
    /\ outcome' = Ok(result)
    /\ pc' = "done"
    /\ UNCHANGED <<argVars, resVars, fractions, p0, new_pars, emcee, result, done_stages, start,
                   summary, passes>>

Next ==
    \/ ComputeFractions
    \/ StageStart
    \/ StageRun
    \/ StageRefine
    \/ FinalStart
    \/ FinalRun
    \/ Return

Spec == Init /\ [][Next]_vars

\* the fractions of every representable call on data of every size up to
\* MaxPixels + 1
InitFractions == Calls(1..(MaxPixels + 1)) /\ SchedInit /\ NoResults
NextFractions == ComputeFractions
SpecFractions == InitFractions /\ [][NextFractions]_vars

\* ------------------------------------------------ calls on sampling results
\* SamplingResult(samples, model) and EmceeResult(sampler, model)
SamplingResult(samples, m) ==
    [cls |-> "SamplingResult", sampler |-> <<>>, samples |-> samples, model |-> m]
EmceeResult(sampler, m) ==
    [cls |-> "EmceeResult", sampler |-> sampler, samples |-> <<>>, model |-> m]

\* df.to_hdf(filename, 'samples'): the table by columns, and pd.read_hdf: the
\* rows of the stored columns
to_hdf(df) ==
    [nrows |-> Len(df),
     has_lnprob |-> \A r \in 1..Len(df) : df[r].has_lnprob,
     columns |-> [j \in Pars |-> [r \in 1..Len(df) |-> df[r].par[j]]],
     lnprob |-> [r \in 1..Len(df) |-> df[r].lnprob]]
read_hdf(h) ==
    [r \in 1..h.nrows |->
        [par |-> [j \in Pars |-> h.columns[j][r]], lnprob |-> h.lnprob[r],
         has_lnprob |-> h.has_lnprob]]
\* yaml.dump(model) and yaml.load: name, centre and width of each prior, in
\* the order of the parameters
RECURSIVE yaml_dump(_)
yaml_dump(m) ==
    IF Len(m) = 0 THEN <<>>
    ELSE <<m[1].name, m[1].mu, m[1].sd>> \o yaml_dump(Tail(m))
yaml_load(y) ==
    [j \in 1..(Len(y) \div 3) |-> Prior(y[3 * j - 2], y[3 * j - 1], y[3 * j])]
\* SamplingResult._save
_save(m, df) == [samples |-> to_hdf(df), model |-> yaml_dump(m)]
\* load_sampling
load_sampling(f) == SamplingResult(read_hdf(f.samples), yaml_load(f.model))

\* the tables of SamplingResult.samples that are summarized: up to four rows
\* of a position and a log-probability in 0..MaxLn, the rows of a table in
\* the order of RowCode (the row order of a table is the sort's to settle)
TableRows == 1..4
RowValues == {[par |-> q, lnprob |-> l, has_lnprob |-> TRUE] : q \in Positions, l \in 0..MaxLn}
RowCode(r) == (r.lnprob * (MaxVal + 1) + r.par[1]) * 2 + r.par[2]
Tables ==
    UNION {{d \in [1..n -> RowValues] : \A a \in 1..(n - 1) : RowCode(d[a]) <= RowCode(d[a + 1])} :
              n \in TableRows}
\* the chains of the EmceeResult whose calls are modelled: three steps per
\* walker, each at the peak of the likelihood or one or two grid steps from it
ResSteps == 1..3
ResPositions ==
    {q \in Positions : \/ q = Peak
                        \/ q = [Peak EXCEPT ![1] = Peak[1] - 1]
                        \/ q = [Peak EXCEPT ![1] = Peak[1] - 1, ![2] = Peak[2] - 1]}
Acors == {[j \in Pars |-> Halves(1)], [j \in Pars |-> IF j = 1 THEN Halves(2) + 1 ELSE Halves(1)]}
EmceeResults ==
    {EmceeResult([Run(Emcee(OriginalModel, Frac(1, 1), None), c).sampler EXCEPT !.acor = a],
                 OriginalModel) :
        c \in [Walkers -> [ResSteps -> ResPositions]], a \in Acors}

InitResult ==
    /\ model = OriginalModel
    /\ min_pixels = 1
    /\ max_pixels = 1
    /\ stages = 0
    /\ preprocess = None
    /\ n_pixels = 1
    /\ SchedInit
    /\ obj \in {SamplingResult(d, OriginalModel) : d \in Tables} \cup EmceeResults
    /\ file = NoFile
    /\ out = NoOut

Called(op, err, val) == [op |-> op, err |-> err, val |-> val]
Idle == out = NoOut /\ file = NoFile

\* SamplingResult.values, EmceeResult.values
Values ==
    /\ Idle
    /\ \E v \in (IF obj.cls = "EmceeResult" THEN values(obj.sampler) ELSE _values(obj.samples)) :
          out' = Called("values", v.err, v.val)
    /\ UNCHANGED <<argVars, schedVars, obj, file>>

\* EmceeResult.most_probable_values
MostProbableValues ==
    /\ Idle
    /\ obj.cls = "EmceeResult"
    /\ out' = Called("most_probable_values", None, most_probable_values(obj.sampler))
    /\ UNCHANGED <<argVars, schedVars, obj, file>>

\* the arguments data_frame and save are called with
BurnIns == 0..Cardinality(ResSteps)
Thins == {ThinAcor, ThinNone, ThinInt(2)}

\* EmceeResult.data_frame
DataFrame ==
    /\ Idle
    /\ obj.cls = "EmceeResult"
    /\ \E b \in BurnIns, t \in Thins, l \in BOOLEAN :
          out' = Called("data_frame", None,
                        [burn_in |-> b, thin |-> t, df |-> data_frame(obj.sampler, b, t, l)])
    /\ UNCHANGED <<argVars, schedVars, obj, file>>

\* SamplingResult.save and EmceeResult.save: out keeps the table handed to _save
SavedFrames ==
    IF obj.cls = "EmceeResult"
    THEN {data_frame(obj.sampler, b, t, TRUE) : b \in BurnIns, t \in Thins}
    ELSE {obj.samples}
Save ==
    /\ Idle
    /\ \E df \in SavedFrames :
          /\ file' = _save(obj.model, df)
          /\ out' = Called("save", None, df)
    /\ UNCHANGED <<argVars, schedVars, obj>>

\* SamplingResult.load, lines 227-229: reads the samples into a local and
\* returns nothing (None)
load(f) == LET samples == read_hdf(f.samples) IN NoObj

\* SamplingResult.load on the file of the save; out keeps the table saved
Load ==
    /\ out.op = "save"
    /\ out' = Called("load", None, [saved |-> out.val, returned |-> load(file)])
    /\ UNCHANGED <<argVars, schedVars, obj, file>>

\* load_sampling, lines 231-237, on the file of the save
LoadSampling ==
    /\ out.op = "save"
    /\ out' = Called("load_sampling", None, [saved |-> out.val, returned |-> load_sampling(file)])
    /\ UNCHANGED <<argVars, schedVars, obj, file>>

NextResult ==
    \/ Values
    \/ MostProbableValues
    \/ DataFrame
    \/ Save
    \/ Load
    \/ LoadSampling

SpecResult == InitResult /\ [][NextResult]_vars

\* ------------------------------------------------ UncertainValue on its own
\* Values and deviations are counted in thousandths.  An optional argument
\* is the empty tuple when it is None and the 1-tuple of its value otherwise.
NoMinus == <<>>
Given(m) == <<m>>
\* UncertainValue.__init__, lines 368-372, with minus=None as its default:
\* the fields are the arguments as they came
UncertainValueInit(value, plus, minus) ==
    [cls |-> "UncertainValue", value |-> value, plus |-> plus, minus |-> minus, n_sigma |-> 1]

\* '{:.ng}': x rounded to n significant digits, ties to the even digit
Digits(x) == IF x < 10 THEN 1 ELSE IF x < 100 THEN 2 ELSE IF x < 1000 THEN 3 ELSE 4
SigDigits(x, n) ==
    IF Digits(x) <= n THEN x
    ELSE LET s == Pow(10, Digits(x) - n)
             q == x \div s
             r == x % s
             up == IF 2 * r > s \/ (2 * r = s /\ q % 2 = 1) THEN 1 ELSE 0
         IN (q + up) * s
\* int(round(np.log10(r) + .6)) for r = a / b: the k with
\* 10^(k - 1.1) <= r < 10^(k - 0.1), 10^-0.1 being 0.794 to the three digits
\* that tell the ratios of the modelled values apart (k in 0..4)
DisplayPrecision(a, b) ==
    CHOOSE k \in 0..4 :
        /\ (k = 4 \/ a * 1000 < b * 794 * Pow(10, k))
        /\ (k = 0 \/ a * 1000 >= b * 794 * Pow(10, k - 1))
TypeError == "TypeError"
ZeroDivisionError == "ZeroDivisionError"
\* UncertainValue._repr_latex_, lines 374-382, with n_sigma = 1: the value,
\* the superscript and the subscript of the formula
_repr_latex_(u) ==
    IF u.minus = NoMinus THEN Raise(TypeError)
    ELSE LET lo == Min2(u.plus, u.minus[1])
         IN IF lo = 0 THEN Raise(ZeroDivisionError)
            ELSE Ok([value |-> SigDigits(u.value, Max2(DisplayPrecision(u.value, lo), 2)),
                     plus |-> SigDigits(u.plus, 2),
                     minus |-> SigDigits(u.minus[1], 2)])

\* the constructor calls that are modelled
UValues == {1000, 1234, 5000}
UDeviations == {0, 100, 125, 200}
UMinus == {NoMinus} \cup {Given(m) : m \in UDeviations}
InitUncertain ==
    /\ model = OriginalModel
    /\ min_pixels = 1
    /\ max_pixels = 1
    /\ stages = 0
    /\ preprocess = None
    /\ n_pixels = 1
    /\ SchedInit
    /\ NoResults
\* UncertainValue(value, plus) and UncertainValue(value, plus, minus); out
\* keeps the minus the call was given
Construct ==
    /\ obj = NoObj
    /\ \E value \in UValues, plus \in UDeviations, minus \in UMinus :
          /\ obj' = UncertainValueInit(value, plus, minus)
          /\ out' = Called("UncertainValue", None, minus)
    /\ UNCHANGED <<argVars, schedVars, file>>
ReprLatex ==
    /\ out.op = "UncertainValue"
    /\ LET r == _repr_latex_(obj)
       IN out' = Called("_repr_latex_", r.err, [given |-> out.val, shown |-> r.val])
    /\ UNCHANGED <<argVars, schedVars, obj, file>>
NextUncertain ==
    \/ Construct
    \/ ReprLatex
SpecUncertain == InitUncertain /\ [][NextUncertain]_vars

\* =================================================================== claims
Zero(v) == v.plus = 0 /\ v.minus = 0
Seeded == pc \in {"seeded", "final_seeded"}

C2_Seeding ==
    /\ Seeded =>
          /\ DOMAIN start = Walkers
          /\ IF Len(passes) = 1
             THEN /\ p0 = NoP0
                  /\ passes[1].seed = "make_guess"
                  /\ start \in make_guess(model)
             ELSE /\ passes[Len(passes)].seed = "p0"
                  /\ start = p0
                  /\ p0 \in Ensembles(new_pars)
    /\ pc = "stage" /\ done_stages >= 1 =>
          /\ summary.err = None
          /\ new_pars = updated_priors(model, summary).val
          /\ p0 \in Ensembles(new_pars)
C2_Witness == pc = "final_seeded" /\ Len(passes) >= 2 /\ start = p0

\* C3: the fractions of every call are stages + 1 in number and strictly
\* increasing, the first above 0 and the last at most 1.
C3_FractionsInUnitInterval ==
    pc = "stage" =>
        /\ Len(fractions) = stages + 1
        /\ \A i \in 1..(Len(fractions) - 1) : FracLess(fractions[i], fractions[i + 1])
        /\ FracPositive(fractions[1])
        /\ FracLeqOne(fractions[Len(fractions)])

\* C4: for every number of stages, 0 too, the final pass runs at
\* max_pixels / N, and with one stage or more the first preliminary pass
\* runs at min_pixels / N.
C4_EndpointFractions ==
    \A i \in 1..Len(passes) :
        /\ i = stages + 1 => FracEq(passes[i].random_subset, Frac(max_pixels, n_pixels))
        /\ i = 1 /\ stages >= 1 => FracEq(passes[i].random_subset, Frac(min_pixels, n_pixels))

\* C5: with stages = 0 no preliminary pass runs and no prior is refined; the
\* one pass is Emcee.sample(final_len) on the model's own priors, started
\* from make_guess(), and its result is what is returned.
C5_NoStages ==
    stages = 0 =>
        /\ pc \notin {"seeded", "sampled", "failed"}
        /\ done_stages = 0 /\ new_pars = <<>> /\ summary = NoSummary /\ p0 = NoP0
        /\ Len(passes) <= 1
        /\ \A i \in 1..Len(passes) :
              /\ passes[i].n_samples = final_len
              /\ passes[i].seed = "make_guess"
              /\ passes[i].model = OriginalModel
        /\ pc = "final_seeded" => start \in make_guess(OriginalModel)
        /\ pc = "done" =>
              /\ outcome.err = None
              /\ outcome.val \in sample(Emcee(OriginalModel, FinalFraction(fractions), None),
                                         FinalSteps)
C5_Witness == stages = 0 /\ pc = "done"

C7_RefinedPriorsInForce ==
    Seeded /\ Len(passes) >= 2 => emcee.model = new_pars
\* C7 as amended: every pass runs on the model's own priors, which are never
\* replaced; its log-posterior is evaluated with them and its refinement
\* starts from them; the refined priors are new values that only seed the
\* next pass.
C7_OriginalPriorsInForce ==
    /\ model = OriginalModel
    /\ \A i \in 1..Len(passes) : passes[i].model = model
    /\ pc \in {"seeded", "sampled", "final_seeded", "final_sampled", "done"} => emcee.model = model
    /\ pc \in {"sampled", "final_sampled", "done"} =>
          /\ result.model = model
          /\ \A w \in Walkers : \A t \in 1..n_steps(result.sampler) :
                result.sampler.lnprobability[w][t] = lnposterior(model, result.sampler.chain[w][t])
    /\ pc = "stage" /\ done_stages >= 1 => new_pars = updated_priors(model, summary).val
    /\ Seeded /\ Len(passes) >= 2 => start \in Ensembles(new_pars)
C7_Witness == pc = "seeded" /\ Len(passes) >= 2 /\ new_pars # model /\ emcee.model = model

\* C8: load(save(result)) returns a SamplingResult whose sample table has the
\* rows that were saved, parameter columns and log-probability column alike,
\* and whose model is the model that was saved.
C8_LoadReturnsWhatWasSaved ==
    out.op = "load" =>
        /\ out.val.returned.cls = "SamplingResult"
        /\ out.val.returned.samples = out.val.saved
        /\ out.val.returned.model = obj.model

\* C9: on a chain whose maximum log-probability is reached at one position,
\* values() returns, as the value of every parameter, that parameter at the
\* position most_probable_values() returns.
UniqueMax(sampler) ==
    Cardinality({x \in Walkers \X (1..n_steps(sampler)) :
                    sampler.lnprobability[x[1]][x[2]] = MaxLnprob(sampler)}) = 1
C9_ValuesAtMostProbable ==
    (out.op = "values" /\ obj.cls = "EmceeResult" /\ UniqueMax(obj.sampler)) =>
        /\ out.err = None
        /\ \A q \in most_probable_values(obj.sampler).rows :
              \A j \in Pars : out.val[j].value = q[j]

\* C10: _values on a table in which one row has a log-probability above that
\* of every other row returns plus = 0 and minus = 0 for every parameter.
Dominated(d) ==
    Len(d) >= 2 /\ \E a \in 1..Len(d) : \A b \in 1..Len(d) : b # a => d[a].lnprob > d[b].lnprob
C10_DominatingRowGivesZeros ==
    (out.op = "values" /\ obj.cls = "SamplingResult" /\ Dominated(obj.samples)) =>
        /\ out.err = None
        /\ \A j \in Pars : Zero(out.val[j])

\* C11: an UncertainValue made without a minus has minus equal to plus; one
\* made with a minus keeps that minus in its field, and its formatted output
\* shows plus above and that minus below, each to two significant digits.
C11_SymmetricDefault ==
    /\ obj.cls = "UncertainValue" /\ out.op = "UncertainValue" =>
          obj.minus = IF out.val = NoMinus THEN Given(obj.plus) ELSE out.val
    /\ obj.cls = "UncertainValue" /\ out.op = "_repr_latex_" =>
          LET m == IF out.val.given = NoMinus THEN obj.plus ELSE out.val.given[1]
          IN Min2(obj.plus, m) > 0 =>
                /\ out.err = None
                /\ out.val.shown.plus = SigDigits(obj.plus, 2)
                /\ out.val.shown.minus = SigDigits(m, 2)

\* C12: a data_frame call, or a save built on it, whose burn-in and stride
\* retain no row reports an error; a call that returns has a table with at
\* least one row.
C12_EmptyThinningIsAnError ==
    /\ (out.op = "data_frame" /\ out.err = None) => Len(out.val.df) > 0
    /\ (out.op = "save" /\ obj.cls = "EmceeResult" /\ out.err = None) => Len(out.val) > 0

\* C13: data_frame(burn_in, thin) keeps, for every walker, the steps burn_in,
\* burn_in + stride, burn_in + 2 stride, ... below the chain length and no
\* other, walker after walker and in step order; the stride is thin when it
\* is an integer, 1 when it is None and the whole part of the largest
\* autocorrelation length when it is 'acor'; a row holds the parameters and
\* the log-probability of one and the same walker and step.
RetainedSteps(n, burn_in, stride) ==
    {t \in 1..n : t - 1 >= burn_in /\ (t - 1 - burn_in) % stride = 0}
NthOf(S, k) == CHOOSE t \in S : Cardinality({u \in S : u < t}) = k - 1
ClaimedStride(sampler, thin) ==
    IF thin.kind = "int" THEN thin.n
    ELSE IF thin.kind = "None" THEN 1
    ELSE CHOOSE k \in 0..MaxOf({sampler.acor[j] : j \in Pars}) :
            \A j \in Pars : sampler.acor[j] < Halves(k + 1)
                /\ \E i \in Pars : sampler.acor[i] >= Halves(k)
C13_RetainedRows ==
    out.op = "data_frame" =>
        LET sampler == obj.sampler
            df == out.val.df
            R == RetainedSteps(n_steps(sampler), out.val.burn_in,
                               ClaimedStride(sampler, out.val.thin))
            m == Cardinality(R)
        IN /\ out.err = None
           /\ Len(df) = nwalkers * m
           /\ \A w \in Walkers : \A k \in 1..m :
                 LET row == df[(w - 1) * m + k]
                     t == NthOf(R, k)
                 IN /\ row.par = sampler.chain[w][t]
                    /\ row.has_lnprob => row.lnprob = sampler.lnprobability[w][t]
C13_Witness ==
    /\ out.op = "data_frame"
    /\ out.val.thin = ThinAcor
    /\ out.val.burn_in = 0
    /\ Len(out.val.df) = 2 * nwalkers
    /\ out.val.df[1].has_lnprob
    /\ out.val.df[1].par # out.val.df[2].par

\* C14: in _values the bound of a parameter stops accumulating at the first
\* scanned row that moves it off that parameter's MAP value, or at the last
\* row, whatever the bounds of the other parameters have done by then.
RECURSIVE IndependentScan(_, _, _, _, _)
IndependentScan(f, d, j, b, i) ==
    IF b = d[1].par[j] /\ i < Len(d)
    THEN IndependentScan(f, d, j,
                         IF f = "maximum" THEN Max2(b, d[i + 1].par[j])
                         ELSE Min2(b, d[i + 1].par[j]),
                         i + 1)
    ELSE b
C14_IndependentScans ==
    (out.op = "values" /\ obj.cls = "SamplingResult" /\ out.err = None) =>
        \E f \in Orders(obj.samples) :
            LET d == Sorted(obj.samples, f)
                i == ThresholdScan(d, 0)
            IN /\ i < Len(d)
               /\ \A j \in Pars :
                     /\ out.val[j].value = d[1].par[j]
                     /\ out.val[j].plus =
                           IndependentScan("maximum", d, j, d[1].par[j], i + 1) - d[1].par[j]
                     /\ out.val[j].minus =
                           d[1].par[j] - IndependentScan("minimum", d, j, d[1].par[j], i + 1)

\* C15: when subset_tempering is given a preprocessing hook, every pass, the
\* preliminary ones and the final one, samples on data the hook was applied to.
C15_EveryPassPreprocessed ==
    preprocess # None =>
        /\ \A i \in 1..Len(passes) : passes[i].preprocessed
        /\ pc \in {"seeded", "sampled", "final_seeded", "final_sampled", "done"} =>
              emcee.data.preprocessed

\* C16: on every table of one row or more, a single row and rows that all
\* lie within 0.5 of the largest log-probability included, _values returns
\* one UncertainValue per parameter and raises nothing.
NonEmpty(o) ==
    IF o.cls = "EmceeResult" THEN n_steps(o.sampler) * nwalkers >= 1 ELSE Len(o.samples) >= 1
C16_ValuesReturns ==
    (out.op = "values" /\ NonEmpty(obj)) =>
        /\ out.err = None
        /\ DOMAIN out.val = Pars
        /\ \A j \in Pars : out.val[j].plus >= 0 /\ out.val[j].minus >= 0

====
